---- MODULE Spec2Model ----
(***************************************************************************)
(* Model of the commodity pallet (pallets/template/src/lib.rs): the five   *)
(* storage items, the UniqueAssets implementation (mint, burn, transfer)   *)
(* of Module<T, I>, the three dispatchable functions of decl_module! and   *)
(* the genesis build.                                                      *)
(*                                                                         *)
(* Spec is the registry called directly through the UniqueAssets trait;    *)
(* RuntimeSpec is the pallet as the runtime drives it: the genesis build,  *)
(* then the dispatchable functions.                                        *)
(***************************************************************************)
EXTENDS Integers, Sequences, FiniteSets, TLC

(* ---------------------------- bounds ----------------------------------- *)

\* T::CommodityLimit::get(): the configured global ceiling.
CommodityLimit == 3

\* T::UserCommodityLimit::get(): the configured per-account ceiling.
UserCommodityLimit == 2

\* Accounts are 0..MaxAccount.
MaxAccount == 2

\* Successful burns explored (Burned is a u128 counter).
MaxBurned == 1

\* Payloads are 0..MaxInfo: more payloads than the global ceiling admits, so
\* that a not-yet-minted payload exists when the ceiling is reached.
MaxInfo == 3

(* ---------------------------- types ------------------------------------ *)

\* T::AccountId::default()
DefaultAccount == 0

\* <T as Trait<I>>::CommodityInfo::default()
DefaultInfo == 0

AccountId == 0..MaxAccount

CommodityInfo == 0..MaxInfo

\* T::Hashing::hash_of: deterministic and injective on the payloads; it does
\* not preserve the order of the payloads, and the identifier of the default
\* payload is neither the least nor the greatest.
hash_of(commodity_info) == (commodity_info + 2) % (MaxInfo + 1)

CommodityId == { hash_of(i) : i \in CommodityInfo }

VARIABLES
    Total,                  \* u128
    Burned,                 \* u128
    TotalForAccount,        \* AccountId -> u64 (0 when absent)
    CommoditiesForAccount,  \* AccountId -> Vec<(CommodityId, CommodityInfo)>
    AccountForCommodity,    \* partial map CommodityId -> AccountId
    last,                   \* the call of the registry the last step made
                            \* ("none" when it made none) and what it returned
    dispatched              \* the dispatchable function the last step ran: its
                            \* origin, its result and the events it deposited

vars == <<Total, Burned, TotalForAccount, CommoditiesForAccount,
          AccountForCommodity, last, dispatched>>

storage == <<Total, Burned, TotalForAccount, CommoditiesForAccount,
             AccountForCommodity>>

(* ---------------------------- helpers ---------------------------------- *)

\* Ord for the tuple (CommodityId, CommodityInfo): lexicographic.
cmp_commodity(a, b) ==
    IF a[1] < b[1] THEN "Less"
    ELSE IF a[1] > b[1] THEN "Greater"
    ELSE IF a[2] < b[2] THEN "Less"
    ELSE IF a[2] > b[2] THEN "Greater"
    ELSE "Equal"

\* The loop of slice::binary_search: positions are 0-based, s[p + 1] is the
\* element at position p.
RECURSIVE binary_search_loop(_, _, _, _)
binary_search_loop(s, x, base, size) ==
    IF size > 1
    THEN LET half == size \div 2
             mid  == base + half
         IN binary_search_loop(s, x,
                IF cmp_commodity(s[mid + 1], x) = "Greater" THEN base ELSE mid,
                size - half)
    ELSE base

\* slice::binary_search: Ok(pos) is [found |-> TRUE, pos |-> pos],
\* Err(pos) is [found |-> FALSE, pos |-> pos].
binary_search(s, x) ==
    IF Len(s) = 0 THEN [found |-> FALSE, pos |-> 0]
    ELSE LET base == binary_search_loop(s, x, 0, Len(s))
             c    == cmp_commodity(s[base + 1], x)
         IN IF c = "Equal" THEN [found |-> TRUE, pos |-> base]
            ELSE [found |-> FALSE, pos |-> base + (IF c = "Less" THEN 1 ELSE 0)]

\* Mutant of vec_insert: the element is pushed at the end.
vec_insert_push(s, pos, x) == Append(s, x)

\* Vec::insert(pos, x), pos 0-based.
vec_insert(s, pos, x) ==
    SubSeq(s, 1, pos) \o <<x>> \o SubSeq(s, pos + 1, Len(s))

\* Mutant of vec_remove: nothing is removed.
vec_remove_nothing(s, pos) == s

\* Mutant of vec_remove: the position is taken 1-based.
vec_remove_next(s, pos) ==
    SubSeq(s, 1, pos + 1) \o SubSeq(s, pos + 3, Len(s))

\* Vec::remove(pos), pos 0-based: the vector without the element.
vec_remove(s, pos) ==
    SubSeq(s, 1, pos) \o SubSeq(s, pos + 2, Len(s))

\* The closure of mint and transfer on the destination's vector.
insert_commodity(commodities, new_commodity) ==
    LET r == binary_search(commodities, new_commodity)
    IN IF r.found THEN commodities
       ELSE vec_insert(commodities, r.pos, new_commodity)

\* The getter account_for_commodity: the default account when the key is absent.
account_for_commodity(commodity_id) ==
    IF commodity_id \in DOMAIN AccountForCommodity
    THEN AccountForCommodity[commodity_id]
    ELSE DefaultAccount

\* UniqueAssets::owner_of
owner_of(commodity_id) == account_for_commodity(commodity_id)

\* Mutant of contains_key: existence decided as burn and transfer decide it.
contains_key_by_owner(commodity_id) == owner_of(commodity_id) # DefaultAccount

\* AccountForCommodity::contains_key
contains_key(commodity_id) == commodity_id \in DOMAIN AccountForCommodity

\* Mutant of map_insert: an existing key keeps its value.
map_insert_if_absent(m, k, v) ==
    [x \in (DOMAIN m) \cup {k} |-> IF x \in DOMAIN m THEN m[x] ELSE v]

\* Mutant of map_insert: the value is written under every key of the map.
map_insert_everywhere(m, k, v) == [x \in (DOMAIN m) \cup {k} |-> v]

\* AccountForCommodity::insert
map_insert(m, k, v) ==
    [x \in (DOMAIN m) \cup {k} |-> IF x = k THEN v ELSE m[x]]

\* Mutant of map_remove: the key is kept.
map_remove_nothing(m, k) == m

\* Mutant of map_remove: the default account is written under the key.
map_remove_tombstone(m, k) ==
    [x \in DOMAIN m |-> IF x = k THEN DefaultAccount ELSE m[x]]

\* AccountForCommodity::remove
map_remove(m, k) == [x \in (DOMAIN m) \ {k} |-> m[x]]

\* The expect() of burn or transfer has failed: the call never returns.
panicked == last.ret = "panic"

\* A call and its return: account is the owner_account or dest_account
\* argument (none for burn), arg the payload (mint) or the identifier (burn,
\* transfer), owner the account the call takes for the owner.
Call(op, account, arg, owner, ret) ==
    [op |-> op, account |-> account, arg |-> arg, owner |-> owner, ret |-> ret]

\* The last step did not call the registry.
NoCall == Call("none", DefaultAccount, 0, DefaultAccount, "none")

\* T::Origin: the root origin and the signed origins.
RootOrigin == [kind |-> "Root"]

Signed(who) == [kind |-> "Signed", who |-> who]

Origin == {RootOrigin} \cup { Signed(a) : a \in AccountId }

\* A dispatchable function and its return; entry is "none" as long as no
\* dispatchable function has run, id is its commodity_id (the argument of
\* burn and transfer, the identifier mint got from the registry).
Dispatch(entry, origin, id, ret, events) ==
    [entry |-> entry, origin |-> origin, id |-> id, ret |-> ret,
     events |-> events]

\* The RawEvent values of decl_event!.
Minted(commodity_id, owner_account) ==
    [event |-> "Minted", id |-> commodity_id, account |-> owner_account]

BurnedEvent(commodity_id) ==
    [event |-> "Burned", id |-> commodity_id, account |-> DefaultAccount]

\* Mutant of Transferred: the event carries the account that owned the
\* commodity, not the destination.
Transferred_from(commodity_id, dest_account) ==
    [event |-> "Transferred", id |-> commodity_id,
     account |-> owner_of(commodity_id)]

Transferred(commodity_id, dest_account) ==
    [event |-> "Transferred", id |-> commodity_id, account |-> dest_account]

(* ---------------------------- state machine ---------------------------- *)

Init ==
    /\ Total = 0
    /\ Burned = 0
    /\ TotalForAccount = [a \in AccountId |-> 0]
    /\ CommoditiesForAccount = [a \in AccountId |-> << >>]
    /\ AccountForCommodity = [x \in {} |-> DefaultAccount]
    /\ last = Call("init", DefaultAccount, 0, DefaultAccount, "Ok")
    /\ dispatched = Dispatch("none", RootOrigin, 0, "Ok", << >>)

\* Mutant of mint_check: the global ceiling is checked before the account's.
mint_check_global_first(owner_account, commodity_id) ==
    IF commodity_id \in DOMAIN AccountForCommodity THEN "CommodityExists"
    ELSE IF ~(Total < CommodityLimit) THEN "TooManyCommodities"
    ELSE IF ~(TotalForAccount[owner_account] < UserCommodityLimit)
         THEN "TooManyCommoditiesForAccount"
    ELSE "Ok"

\* Mutant of mint_check: the global ceiling admits one commodity too many.
mint_check_global_off_by_one(owner_account, commodity_id) ==
    IF commodity_id \in DOMAIN AccountForCommodity THEN "CommodityExists"
    ELSE IF ~(TotalForAccount[owner_account] < UserCommodityLimit)
         THEN "TooManyCommoditiesForAccount"
    ELSE IF ~(Total <= CommodityLimit) THEN "TooManyCommodities"
    ELSE "Ok"

\* The three ensure! of mint, in their order: the error of the first that
\* fails, "Ok" when all pass.
mint_check(owner_account, commodity_id) ==
    IF contains_key(commodity_id) THEN "CommodityExists"
    ELSE IF ~(TotalForAccount[owner_account] < UserCommodityLimit)
         THEN "TooManyCommoditiesForAccount"
    ELSE IF ~(Total < CommodityLimit) THEN "TooManyCommodities"
    ELSE "Ok"

mint(owner_account, commodity_info) ==
    LET commodity_id  == hash_of(commodity_info)
        err           == mint_check(owner_account, commodity_id)
        new_commodity == <<commodity_id, commodity_info>>
    IN /\ ~panicked
       /\ last' = Call("mint", owner_account, commodity_info, owner_account, err)
       /\ IF err # "Ok"
          THEN UNCHANGED storage
          ELSE /\ Total' = Total + 1
               /\ TotalForAccount' =
                    [TotalForAccount EXCEPT ![owner_account] = @ + 1]
               /\ CommoditiesForAccount' =
                    [CommoditiesForAccount EXCEPT ![owner_account] =
                        insert_commodity(@, new_commodity)]
               /\ AccountForCommodity' =
                    map_insert(AccountForCommodity, commodity_id, owner_account)
               /\ UNCHANGED Burned

\* Mutant of exists_check: every identifier is taken to exist.
exists_check_always(owner) == "Ok"

\* Mutant of exists_check: the comparison with the default account is inverted.
exists_check_inverted(owner) ==
    IF owner = DefaultAccount THEN "Ok" ELSE "NonexistentCommodity"

\* The ensure! of burn and the first ensure! of transfer.
exists_check(owner) ==
    IF owner # DefaultAccount THEN "Ok" ELSE "NonexistentCommodity"

\* The tuple burn and transfer search the owner's vector for.
placeholder(commodity_id) == <<commodity_id, DefaultInfo>>

\* Mutant of burn_counters: Burned takes the decrement meant for Total.
burn_counters_swapped(total, burned) ==
    [total |-> total - 1, burned |-> burned - 1]

\* Total::mutate and Burned::mutate of burn.
burn_counters(total, burned) ==
    [total |-> total - 1, burned |-> burned + 1]

burn(commodity_id) ==
    LET owner          == owner_of(commodity_id)
        err            == exists_check(owner)
        burn_commodity == placeholder(commodity_id)
        r              == binary_search(CommoditiesForAccount[owner], burn_commodity)
    IN /\ ~panicked
       /\ (err = "Ok" => Burned < MaxBurned)
       /\ IF err # "Ok"
          THEN /\ last' = Call("burn", DefaultAccount, commodity_id, owner, err)
               /\ UNCHANGED storage
          ELSE /\ Total' = burn_counters(Total, Burned).total
               /\ Burned' = burn_counters(Total, Burned).burned
               /\ TotalForAccount' = [TotalForAccount EXCEPT ![owner] = @ - 1]
               /\ IF r.found
                  THEN /\ CommoditiesForAccount' =
                            [CommoditiesForAccount EXCEPT ![owner] =
                                vec_remove(@, r.pos)]
                       /\ AccountForCommodity' =
                            map_remove(AccountForCommodity, commodity_id)
                       /\ last' = Call("burn", DefaultAccount, commodity_id, owner, "Ok")
                  ELSE \* expect(): the writes above are done, the rest is not
                       /\ UNCHANGED <<CommoditiesForAccount, AccountForCommodity>>
                       /\ last' = Call("burn", DefaultAccount, commodity_id, owner, "panic")

\* Mutant of transfer_check: the destination's ceiling is not checked.
transfer_check_no_cap(owner, dest_account) ==
    IF owner # DefaultAccount THEN "Ok" ELSE "NonexistentCommodity"

\* The two ensure! of transfer, in their order.
transfer_check(owner, dest_account) ==
    IF exists_check(owner) # "Ok" THEN exists_check(owner)
    ELSE IF ~(TotalForAccount[dest_account] < UserCommodityLimit)
         THEN "TooManyCommoditiesForAccount"
    ELSE "Ok"

\* Mutant of transfer_totals: both counters are read before either is written.
transfer_totals_stale(totals, owner, dest_account) ==
    [a \in DOMAIN totals |->
        IF a = dest_account THEN totals[a] + 1
        ELSE IF a = owner THEN totals[a] - 1
        ELSE totals[a]]

\* The two TotalForAccount::mutate of transfer, one after the other.
transfer_totals(totals, owner, dest_account) ==
    LET totals1 == [totals EXCEPT ![owner] = @ - 1]
    IN [totals1 EXCEPT ![dest_account] = @ + 1]

transfer(dest_account, commodity_id) ==
    LET owner          == owner_of(commodity_id)
        err            == transfer_check(owner, dest_account)
        xfer_commodity == placeholder(commodity_id)
        r              == binary_search(CommoditiesForAccount[owner], xfer_commodity)
        totals2        == transfer_totals(TotalForAccount, owner, dest_account)
        commodity      == CommoditiesForAccount[owner][r.pos + 1]
        vecs1          == [CommoditiesForAccount EXCEPT ![owner] =
                              vec_remove(@, r.pos)]
        vecs2          == [vecs1 EXCEPT ![dest_account] =
                              insert_commodity(@, commodity)]
    IN /\ ~panicked
       /\ IF err # "Ok"
          THEN /\ last' = Call("transfer", dest_account, commodity_id, owner, err)
               /\ UNCHANGED storage
          ELSE /\ TotalForAccount' = totals2
               /\ UNCHANGED <<Total, Burned>>
               /\ IF r.found
                  THEN /\ CommoditiesForAccount' = vecs2
                       /\ AccountForCommodity' =
                            map_insert(AccountForCommodity, commodity_id, dest_account)
                       /\ last' = Call("transfer", dest_account, commodity_id, owner, "Ok")
                  ELSE \* expect(): the counters are written, the rest is not
                       /\ UNCHANGED <<CommoditiesForAccount, AccountForCommodity>>
                       /\ last' = Call("transfer", dest_account, commodity_id, owner, "panic")

Mint ==
    \E a \in AccountId, i \in CommodityInfo :
        mint(a, i) /\ UNCHANGED dispatched

Burn == \E c \in CommodityId : burn(c) /\ UNCHANGED dispatched

Transfer ==
    \E a \in AccountId, c \in CommodityId :
        transfer(a, c) /\ UNCHANGED dispatched

Next == Mint \/ Burn \/ Transfer

Spec == Init /\ [][Next]_vars

(* ---------------------------- runtime ---------------------------------- *)

\* The genesis build or a dispatchable function has panicked.
halted == panicked \/ dispatched.ret = "panic"

\* One iteration of the loops of the genesis build: mint called directly,
\* panic!(err) when it fails.  The build runs before any dispatchable function.
genesis_mint(who, asset) ==
    /\ ~halted
    /\ dispatched.entry = "none"
    /\ mint(who, asset)
    /\ dispatched' = Dispatch("none", RootOrigin, 0,
                         IF last'.ret = "Ok" THEN "Ok" ELSE "panic", << >>)

\* T::CommodityAdmin::ensure_origin: the runtime's choice of admin origin.
CommodityAdmin_ensure_origin(origin) == origin = RootOrigin

\* frame_system::ensure_signed
ensure_signed(origin) == origin.kind = "Signed"

\* Module::mint
Module_mint(origin, owner_account, commodity_info) ==
    /\ ~halted
    /\ IF ~CommodityAdmin_ensure_origin(origin)
       THEN /\ dispatched' = Dispatch("mint", origin, 0, "BadOrigin", << >>)
            /\ last' = NoCall
            /\ UNCHANGED storage
       ELSE /\ mint(owner_account, commodity_info)
            /\ dispatched' = Dispatch("mint", origin,
                    IF last'.ret = "Ok" THEN hash_of(commodity_info) ELSE 0,
                    last'.ret,
                    IF last'.ret = "Ok"
                    THEN <<Minted(hash_of(commodity_info), owner_account)>>
                    ELSE << >>)

\* Mutant of owner_check: any signer passes.
owner_check_any_signer(who, commodity_id) == "Ok"

\* The ensure! of Module::burn and Module::transfer.
owner_check(who, commodity_id) ==
    IF who = account_for_commodity(commodity_id) THEN "Ok"
    ELSE "NotCommodityOwner"

\* ensure_signed and the ensure! of Module::burn and Module::transfer: the
\* error of the first that fails, "Ok" when both pass.
signer_check(origin, commodity_id) ==
    IF ~ensure_signed(origin) THEN "BadOrigin"
    ELSE owner_check(origin.who, commodity_id)

\* Module::burn
Module_burn(origin, commodity_id) ==
    LET err == signer_check(origin, commodity_id)
    IN /\ ~halted
       /\ IF err # "Ok"
          THEN /\ dispatched' = Dispatch("burn", origin, commodity_id, err, << >>)
               /\ last' = NoCall
               /\ UNCHANGED storage
          ELSE /\ burn(commodity_id)
               /\ dispatched' = Dispatch("burn", origin, commodity_id, last'.ret,
                       IF last'.ret = "Ok"
                       THEN <<BurnedEvent(commodity_id)>>
                       ELSE << >>)

\* Module::transfer
Module_transfer(origin, dest_account, commodity_id) ==
    LET err == signer_check(origin, commodity_id)
    IN /\ ~halted
       /\ IF err # "Ok"
          THEN /\ dispatched' = Dispatch("transfer", origin, commodity_id, err, << >>)
               /\ last' = NoCall
               /\ UNCHANGED storage
          ELSE /\ transfer(dest_account, commodity_id)
               /\ dispatched' = Dispatch("transfer", origin, commodity_id, last'.ret,
                       IF last'.ret = "Ok"
                       THEN <<Transferred(commodity_id, dest_account)>>
                       ELSE << >>)

GenesisMint == \E who \in AccountId, asset \in CommodityInfo : genesis_mint(who, asset)

DispatchMint ==
    \E o \in Origin, a \in AccountId, i \in CommodityInfo : Module_mint(o, a, i)

DispatchBurn == \E o \in Origin, c \in CommodityId : Module_burn(o, c)

DispatchTransfer ==
    \E o \in Origin, a \in AccountId, c \in CommodityId :
        Module_transfer(o, a, c)

RuntimeNext == GenesisMint \/ DispatchMint \/ DispatchBurn \/ DispatchTransfer

RuntimeSpec == Init /\ [][RuntimeNext]_vars

(* ---------------------------- properties -------------------------------- *)

\* The last call returned (successfully or with an error): it did not panic.
completed == last.ret # "panic"

RECURSIVE SumTotals(_)
SumTotals(accounts) ==
    IF accounts = {} THEN 0
    ELSE LET a == CHOOSE x \in accounts : TRUE
         IN TotalForAccount[a] + SumTotals(accounts \ {a})

\* The positions of account's vector, in the map vecs, whose commodity has
\* the identifier id.
PositionsIn(vecs, account, id) ==
    { k \in 1..Len(vecs[account]) : vecs[account][k][1] = id }

PositionsOf(account, id) == PositionsIn(CommoditiesForAccount, account, id)

HoldsIn(vecs, account, id) == PositionsIn(vecs, account, id) # {}

Holds(account, id) == HoldsIn(CommoditiesForAccount, account, id)

\* C1: after every completed call of mint, burn or transfer, accepted or
\* rejected, Total is the sum of TotalForAccount over all accounts and every
\* account's TotalForAccount is the length of its vector of commodities.
C1_CounterConsistency ==
    completed =>
        /\ Total = SumTotals(AccountId)
        /\ \A a \in AccountId :
              TotalForAccount[a] = Len(CommoditiesForAccount[a])

\* C1 witness: a transfer has succeeded after a burn, with other commodities
\* still held by two accounts.
C1_Witness ==
    /\ last.op = "transfer" /\ last.ret = "Ok"
    /\ Burned >= 1
    /\ Total >= 2
    /\ \E a, b \in AccountId : a # b /\ TotalForAccount[a] >= 1 /\ TotalForAccount[b] >= 1

\* C2: the index AccountForCommodity has the entry id -> acct exactly when
\* acct's vector holds a commodity with the identifier id; no identifier is
\* held by two accounts, nor twice by one.
C2_OwnerIndexMatchesCollections ==
    /\ \A id \in CommodityId, acct \in AccountId :
          (id \in DOMAIN AccountForCommodity /\ AccountForCommodity[id] = acct)
              <=> Holds(acct, id)
    /\ \A id \in CommodityId, a, b \in AccountId :
          (Holds(a, id) /\ Holds(b, id)) => a = b
    /\ \A id \in CommodityId, a \in AccountId :
          Cardinality(PositionsOf(a, id)) <= 1

\* C2 witness: a commodity has been transferred to an account that is not the
\* default account, while another account holds commodities too.
C2_Witness ==
    /\ last.op = "transfer" /\ last.ret = "Ok"
    /\ last.owner # last.account
    /\ last.account # DefaultAccount
    /\ Holds(last.account, last.arg)
    /\ \E b \in AccountId : b # last.account /\ TotalForAccount[b] >= 1

\* C3 (as claimed): owner_of(id) is the default account exactly when no
\* account holds id, with any account as owner or destination.
C3_NullIffNonexistent ==
    \A id \in CommodityId :
        (owner_of(id) = DefaultAccount)
            <=> (\A a \in AccountId : ~Holds(a, id))

\* C4: Total never exceeds CommodityLimit and no account's TotalForAccount
\* exceeds UserCommodityLimit.
C4_Ceilings ==
    /\ Total <= CommodityLimit
    /\ \A a \in AccountId : TotalForAccount[a] <= UserCommodityLimit

\* C4 witness: a transfer into an account that is at its ceiling has been
\* rejected while the global ceiling is reached too.
C4_Witness ==
    /\ last.op = "transfer" /\ last.ret = "TooManyCommoditiesForAccount"
    /\ TotalForAccount[last.account] = UserCommodityLimit
    /\ Total = CommodityLimit

\* C5: a mint of a payload whose identifier still has an entry in
\* AccountForCommodity returns CommodityExists, whoever the owner accounts are,
\* and leaves Total as it is; the mint that succeeded raised Total by exactly 1
\* and made that entry.
C5_DuplicateMintRejected ==
    [][ last'.op = "mint" =>
          LET id == hash_of(last'.arg)
          IN /\ id \in DOMAIN AccountForCommodity =>
                    (last'.ret = "CommodityExists" /\ Total' = Total)
             /\ last'.ret = "Ok" =>
                    /\ id \notin DOMAIN AccountForCommodity
                    /\ id \in DOMAIN AccountForCommodity'
                    /\ Total' = Total + 1
      ]_vars

\* C5 witness: the second mint of a payload, to another account than the one
\* that holds the commodity, has been rejected.
C5_Witness ==
    /\ last.op = "mint" /\ last.ret = "CommodityExists"
    /\ hash_of(last.arg) \in DOMAIN AccountForCommodity
    /\ AccountForCommodity[hash_of(last.arg)] # last.account
    /\ Total = 1

\* C6: mint checks existence, then the account's ceiling, then the global
\* ceiling, and returns the error of the first check that fails; a mint that
\* returns an error changes none of the five storage items.
C6_MintCheckOrder ==
    [][ last'.op = "mint" =>
          LET id     == hash_of(last'.arg)
              exists == id \in DOMAIN AccountForCommodity
              full   == TotalForAccount[last'.account] >= UserCommodityLimit
              capped == Total >= CommodityLimit
          IN /\ exists => last'.ret = "CommodityExists"
             /\ (~exists /\ full) => last'.ret = "TooManyCommoditiesForAccount"
             /\ (~exists /\ ~full /\ capped) => last'.ret = "TooManyCommodities"
             /\ last'.ret # "Ok" => storage' = storage
      ]_vars

\* C6 witness: a payload that was not minted before has been refused with the
\* account's error while both ceilings were reached.
C6_Witness ==
    /\ last.op = "mint" /\ last.ret = "TooManyCommoditiesForAccount"
    /\ hash_of(last.arg) \notin DOMAIN AccountForCommodity
    /\ TotalForAccount[last.account] = UserCommodityLimit
    /\ Total = CommodityLimit

\* C7 (as claimed): burn and transfer of a commodity that exists never reach
\* the expect() that fails, whatever payload it was minted with.
C7_EntryAlwaysFound == last.ret # "panic"

\* C8: a burn that succeeds removes the identifier from AccountForCommodity
\* and from every account's vector, lowers Total by 1, raises Burned by 1 and
\* lowers the former owner's TotalForAccount by 1.
C8_BurnRemovesCompletely ==
    [][ (last'.op = "burn" /\ last'.ret = "Ok") =>
          LET id    == last'.arg
              owner == AccountForCommodity[id]
          IN /\ id \in DOMAIN AccountForCommodity
             /\ id \notin DOMAIN AccountForCommodity'
             /\ \A a \in AccountId : ~HoldsIn(CommoditiesForAccount', a, id)
             /\ Total' = Total - 1
             /\ Burned' = Burned + 1
             /\ TotalForAccount'[owner] = TotalForAccount[owner] - 1
      ]_vars

\* C8 witness: a burn has succeeded while other commodities remain.
C8_Witness ==
    /\ last.op = "burn" /\ last.ret = "Ok"
    /\ Burned >= 1
    /\ Total >= 1

\* C9: after a successful mint(A, info) the owner of the returned identifier
\* is A; after a successful transfer(B, id) from A with B # A the owner is B,
\* A's vector no longer holds id and B's vector holds id with the payload it
\* was minted with.
C9_OwnershipRoundTrip ==
    [][ /\ (last'.op = "mint" /\ last'.ret = "Ok") =>
              LET id == hash_of(last'.arg)
              IN /\ id \in DOMAIN AccountForCommodity'
                 /\ AccountForCommodity'[id] = last'.account
                 /\ \E k \in DOMAIN CommoditiesForAccount'[last'.account] :
                       CommoditiesForAccount'[last'.account][k] = <<id, last'.arg>>
        /\ (last'.op = "transfer" /\ last'.ret = "Ok"
                /\ AccountForCommodity[last'.arg] # last'.account) =>
              LET id == last'.arg
                  A  == AccountForCommodity[id]
                  B  == last'.account
              IN /\ id \in DOMAIN AccountForCommodity'
                 /\ AccountForCommodity'[id] = B
                 /\ ~HoldsIn(CommoditiesForAccount', A, id)
                 /\ \E k \in DOMAIN CommoditiesForAccount'[B], i \in CommodityInfo :
                       /\ hash_of(i) = id
                       /\ CommoditiesForAccount'[B][k] = <<id, i>>
                       /\ \E j \in DOMAIN CommoditiesForAccount[A] :
                             CommoditiesForAccount[A][j] = <<id, i>>
      ]_vars

\* C9 witness: a commodity has been transferred to another account than its
\* owner, which now holds it, while the former owner still holds another one.
C9_Witness ==
    /\ last.op = "transfer" /\ last.ret = "Ok"
    /\ last.owner # last.account
    /\ TotalForAccount[last.owner] >= 1
    /\ Holds(last.account, last.arg)
    /\ TotalForAccount[last.account] = 1
    /\ \E a \in AccountId : a # last.account /\ TotalForAccount[a] >= 1
    /\ Burned = 0

\* C10: burn and transfer of an identifier that has no entry in
\* AccountForCommodity (never minted, or minted and burned) return
\* NonexistentCommodity and change none of the five storage items.
C10_NonexistentTargets ==
    [][ (last'.op \in {"burn", "transfer"}
            /\ last'.arg \notin DOMAIN AccountForCommodity) =>
          /\ last'.ret = "NonexistentCommodity"
          /\ storage' = storage
      ]_vars

\* C10 witness: the commodity of the default payload has been burned and a
\* second burn of its identifier has been refused.
C10_Witness ==
    /\ last.op = "burn" /\ last.ret = "NonexistentCommodity"
    /\ last.arg = hash_of(DefaultInfo)
    /\ last.arg \notin DOMAIN AccountForCommodity
    /\ Burned >= 1

\* C11 (as claimed): after CommodityLimit successful mints and no burn, a
\* mint of a payload that was not minted yet returns TooManyCommodities and
\* changes none of the storage items, whoever the owner account is.
C11_GlobalCeilingAnyOwner ==
    [][ (last'.op = "mint"
            /\ Total = CommodityLimit /\ Burned = 0
            /\ hash_of(last'.arg) \notin DOMAIN AccountForCommodity) =>
          /\ last'.ret = "TooManyCommodities"
          /\ storage' = storage
      ]_vars

\* C11 (amended): after CommodityLimit successful mints and no burn, a mint
\* of a payload that was not minted yet changes none of the storage items; it
\* returns TooManyCommodities when the owner account holds fewer than
\* UserCommodityLimit commodities and TooManyCommoditiesForAccount otherwise.
C11_GlobalCeiling ==
    [][ (last'.op = "mint"
            /\ Total = CommodityLimit /\ Burned = 0
            /\ hash_of(last'.arg) \notin DOMAIN AccountForCommodity) =>
          /\ storage' = storage
          /\ last'.ret =
                IF TotalForAccount[last'.account] < UserCommodityLimit
                THEN "TooManyCommodities"
                ELSE "TooManyCommoditiesForAccount"
      ]_vars

\* C11 witness: the global ceiling has refused a mint of a new payload to an
\* account that is below its own ceiling, after no burn.
C11_Witness ==
    /\ last.op = "mint" /\ last.ret = "TooManyCommodities"
    /\ hash_of(last.arg) \notin DOMAIN AccountForCommodity
    /\ Total = CommodityLimit /\ Burned = 0
    /\ TotalForAccount[last.account] < UserCommodityLimit

\* C12 (as claimed): when an account holds UserCommodityLimit commodities, a
\* mint of a payload that was not minted yet to that account, and a transfer
\* into that account of a commodity that exists (some account holds it),
\* return TooManyCommoditiesForAccount and change none of the storage items.
C12_AccountCeiling ==
    [][ /\ (last'.op = "mint"
              /\ TotalForAccount[last'.account] = UserCommodityLimit
              /\ hash_of(last'.arg) \notin DOMAIN AccountForCommodity) =>
            /\ last'.ret = "TooManyCommoditiesForAccount"
            /\ storage' = storage
        /\ (last'.op = "transfer"
              /\ TotalForAccount[last'.account] = UserCommodityLimit
              /\ \E a \in AccountId : Holds(a, last'.arg)) =>
            /\ last'.ret = "TooManyCommoditiesForAccount"
            /\ storage' = storage
      ]_vars

\* C13: a dispatched burn or transfer changes the storage items only when
\* its origin is signed by the account owner_of(id) returns before the call;
\* when the signer is another account the dispatchable function returns
\* NotCommodityOwner without calling the registry and the storage items are
\* unchanged.
C13_OnlyOwnerDispatches ==
    [][ dispatched'.entry \in {"burn", "transfer"} =>
          LET o  == dispatched'.origin
              id == dispatched'.id
          IN /\ storage' # storage =>
                    (o.kind = "Signed" /\ o.who = owner_of(id))
             /\ (o.kind = "Signed" /\ o.who # owner_of(id)) =>
                    /\ dispatched'.ret = "NotCommodityOwner"
                    /\ last' = NoCall
                    /\ storage' = storage
      ]_vars

\* C13 witness: an account that is not the owner of an existing commodity has
\* asked for its transfer and has been refused.
C13_Witness ==
    /\ dispatched.entry = "transfer"
    /\ dispatched.ret = "NotCommodityOwner"
    /\ dispatched.origin.kind = "Signed"
    /\ dispatched.id \in DOMAIN AccountForCommodity
    /\ AccountForCommodity[dispatched.id] # dispatched.origin.who
    /\ AccountForCommodity[dispatched.id] # DefaultAccount

\* The event a successful call of the registry is to be reported with.
EventOf(call) ==
    IF call.op = "mint"
    THEN [event |-> "Minted", id |-> hash_of(call.arg), account |-> call.account]
    ELSE IF call.op = "burn"
    THEN [event |-> "Burned", id |-> call.arg, account |-> DefaultAccount]
    ELSE [event |-> "Transferred", id |-> call.arg, account |-> call.account]

\* C14 (as claimed): every successful mint, burn and transfer of the registry,
\* the mints of the genesis build included, deposits exactly one event, with
\* the identifier and the owner or destination account; a call that fails
\* deposits none.
C14_EventPerRegistrySuccess ==
    [][ last'.op \in {"mint", "burn", "transfer"} =>
          dispatched'.events =
              IF last'.ret = "Ok" THEN <<EventOf(last')>> ELSE << >>
      ]_vars

\* C14 (amended): a dispatchable function that succeeds deposits exactly one
\* event, with the identifier and the owner or destination account of the
\* registry call it made; a dispatchable function that fails deposits none,
\* and neither does a mint of the genesis build.
C14_EventPerDispatch ==
    [][ /\ dispatched'.entry \in {"mint", "burn", "transfer"} =>
              /\ dispatched'.ret = "Ok" <=> last'.ret = "Ok"
              /\ dispatched'.ret = "Ok" =>
                    /\ last'.op = dispatched'.entry
                    /\ dispatched'.id = EventOf(last').id
                    /\ dispatched'.events = <<EventOf(last')>>
              /\ dispatched'.ret # "Ok" => dispatched'.events = << >>
        /\ dispatched'.entry = "none" => dispatched'.events = << >>
      ]_vars

\* C14 witness: a dispatched transfer to another account has succeeded and
\* its one event names the identifier and the destination; the commodity was
\* minted by the genesis build or by a dispatched mint.
C14_Witness ==
    /\ dispatched.entry = "transfer" /\ dispatched.ret = "Ok"
    /\ Len(dispatched.events) = 1
    /\ dispatched.events[1].event = "Transferred"
    /\ dispatched.events[1].id = dispatched.id
    /\ dispatched.events[1].account = last.account
    /\ last.account # last.owner
    /\ AccountForCommodity[dispatched.id] = last.account

\* C15: a transfer that succeeds leaves Total and Burned as they are, leaves
\* TotalForAccount and the vector of every account other than the former
\* owner and the destination as they are, and leaves the owner of every other
\* identifier as it is.
C15_TransferFrame ==
    [][ (last'.op = "transfer" /\ last'.ret = "Ok") =>
          /\ Total' = Total
          /\ Burned' = Burned
          /\ \A a \in AccountId \ {last'.owner, last'.account} :
                /\ TotalForAccount'[a] = TotalForAccount[a]
                /\ CommoditiesForAccount'[a] = CommoditiesForAccount[a]
          /\ DOMAIN AccountForCommodity' = DOMAIN AccountForCommodity
          /\ \A id \in (DOMAIN AccountForCommodity) \ {last'.arg} :
                AccountForCommodity'[id] = AccountForCommodity[id]
      ]_vars

\* C15 witness: a commodity has been transferred between two accounts while
\* a third account holds a commodity.
C15_Witness ==
    /\ last.op = "transfer" /\ last.ret = "Ok"
    /\ last.owner # last.account
    /\ \E a \in AccountId \ {last.owner, last.account} :
          /\ TotalForAccount[a] >= 1
          /\ \E id \in DOMAIN AccountForCommodity :
                id # last.arg /\ AccountForCommodity[id] = a

Before(x, y) == x[1] < y[1] \/ (x[1] = y[1] /\ x[2] < y[2])

\* Every account's vector is strictly increasing.
AllSorted ==
    \A a \in AccountId :
        \A i, j \in 1..Len(CommoditiesForAccount[a]) :
            i < j => Before(CommoditiesForAccount[a][i], CommoditiesForAccount[a][j])

\* The sequence long is the sequence short with the element x put in at one
\* position, the other elements in their order.
InsertedInto(short, long, x) ==
    /\ Len(long) = Len(short) + 1
    /\ \E k \in 1..Len(long) :
          /\ long[k] = x
          /\ SubSeq(long, 1, k - 1) = SubSeq(short, 1, k - 1)
          /\ SubSeq(long, k + 1, Len(long)) = SubSeq(short, k, Len(short))

\* C17: every account's vector is strictly sorted by the (identifier,
\* payload) order, without duplicates, in every reachable state; a successful
\* mint or transfer puts the tuple into the vector and a successful burn or
\* transfer takes it out with the other entries left in their order.
C17_SortedCollections ==
    /\ []AllSorted
    /\ [][ /\ (last'.op = "mint" /\ last'.ret = "Ok") =>
                InsertedInto(CommoditiesForAccount[last'.account],
                             CommoditiesForAccount'[last'.account],
                             <<hash_of(last'.arg), last'.arg>>)
           /\ (last'.op = "burn" /\ last'.ret = "Ok") =>
                \E i \in CommodityInfo :
                    InsertedInto(CommoditiesForAccount'[last'.owner],
                                 CommoditiesForAccount[last'.owner],
                                 <<last'.arg, i>>)
           /\ (last'.op = "transfer" /\ last'.ret = "Ok"
                    /\ last'.owner # last'.account) =>
                \E i \in CommodityInfo :
                    /\ InsertedInto(CommoditiesForAccount'[last'.owner],
                                    CommoditiesForAccount[last'.owner],
                                    <<last'.arg, i>>)
                    /\ InsertedInto(CommoditiesForAccount[last'.account],
                                    CommoditiesForAccount'[last'.account],
                                    <<last'.arg, i>>)
         ]_vars

\* C17 witness: a mint has put its tuple in front of the tuple the account
\* held already.
C17_Witness ==
    /\ last.op = "mint" /\ last.ret = "Ok"
    /\ Len(CommoditiesForAccount[last.account]) = 2
    /\ CommoditiesForAccount[last.account][1] = <<hash_of(last.arg), last.arg>>

\* C18: Burned never decreases; a burn that succeeds raises it by exactly 1;
\* every mint, every transfer and every call that returns an error leaves it
\* as it is.
C18_BurnedMonotonic ==
    [][ /\ Burned' >= Burned
        /\ (last'.op = "burn" /\ last'.ret = "Ok") => Burned' = Burned + 1
        /\ last'.op \in {"mint", "transfer"} => Burned' = Burned
        /\ last'.ret \notin {"Ok", "panic"} => Burned' = Burned
      ]_vars

\* C18 witness: after a successful burn a mint has succeeded and Burned still
\* counts the burn.
C18_Witness ==
    /\ last.op = "mint" /\ last.ret = "Ok"
    /\ Burned >= 1
    /\ Total >= 2

\* C19: a burn that succeeds frees the identifier; a mint of a payload whose
\* identifier is free is not refused with CommodityExists and, when both
\* ceilings allow, succeeds and records the commodity under hash_of(payload),
\* the identifier every mint of that payload gets.
C19_IdentifierFreedByBurn ==
    [][ /\ (last'.op = "burn" /\ last'.ret = "Ok") =>
              last'.arg \notin DOMAIN AccountForCommodity'
        /\ (last'.op = "mint"
              /\ hash_of(last'.arg) \notin DOMAIN AccountForCommodity) =>
              /\ last'.ret # "CommodityExists"
              /\ (TotalForAccount[last'.account] < UserCommodityLimit
                    /\ Total < CommodityLimit) =>
                    /\ last'.ret = "Ok"
                    /\ hash_of(last'.arg) \in DOMAIN AccountForCommodity'
                    /\ AccountForCommodity'[hash_of(last'.arg)] = last'.account
                    /\ \E k \in DOMAIN CommoditiesForAccount'[last'.account] :
                          CommoditiesForAccount'[last'.account][k] =
                              <<hash_of(last'.arg), last'.arg>>
      ]_vars

\* C19 witness: the commodity of the default payload (the payload whose
\* commodity a burn removes) has been burned and minted again, under the same
\* identifier.
C19_Witness ==
    /\ last.op = "mint" /\ last.ret = "Ok"
    /\ last.arg = DefaultInfo
    /\ Burned >= 1
    /\ hash_of(DefaultInfo) \in DOMAIN AccountForCommodity
    /\ AccountForCommodity[hash_of(DefaultInfo)] = last.account

\* C20: the decrements of burn and transfer never take a counter below zero:
\* no counter is negative, and as long as calls are made, an identifier whose
\* owner passes the check of burn and transfer is counted in Total and in
\* its owner's TotalForAccount.
C20_NoUnderflow ==
    /\ Total >= 0
    /\ \A a \in AccountId : TotalForAccount[a] >= 0
    /\ completed =>
          \A id \in CommodityId :
              owner_of(id) # DefaultAccount =>
                  (Total >= 1 /\ TotalForAccount[owner_of(id)] >= 1)

\* C20 witness: the burn of the only commodity has taken Total and the
\* owner's TotalForAccount from 1 to 0.
C20_Witness ==
    /\ last.op = "burn" /\ last.ret = "Ok"
    /\ Total = 0
    /\ TotalForAccount[last.owner] = 0

====
